---------------------------- MODULE Spec2Model ----------------------------
(***************************************************************************)
(* OpenFIDO build tooling: the build-manifest validator                    *)
(* (scripts/validate_build.py), the flash dispatcher (scripts/flash.py)    *)
(* and the manifest mutation harness (tests/test_cmake_error_handling.py). *)
(*                                                                         *)
(* Text is a sequence of one-character strings.  A file is a record        *)
(* [exists, content].                                                      *)
(***************************************************************************)
EXTENDS Integers, Sequences, FiniteSets, TLC

VARIABLES
  \* ---- the filesystem
  manifest,      \* <project_root>/CMakeLists.txt
  backupFile,    \* <project_root>/CMakeLists.txt.backup
  fs,            \* what lies at <project_root>/<path>, for the paths of the tree
  rootKind,      \* what lies at project_root itself
  buildDir,      \* whether <project_root>/build exists
  \* ---- parse_cmake_sources on its own
  text,          \* the content read at validate_build.py:30-31
  parsed,        \* the returned source_files
  \* ---- validate_build.main
  vpc,           \* position of the validator run
  vrun,          \* 1 for the first run, 2 for the run that follows it
  source_files,  \* validate_build.py:90
  all_exist,     \* validate_build.py:95
  missing_files, \* validate_build.py:95
  vres,          \* per finished run: what it extracted, reported and returned
  \* ---- verify_files_exist called directly
  vcall,
  \* ---- flash.main
  fpc, fargs, fenv, invoked, fexit,
  \* ---- test_cmake_error_handling.main, one entry per harness run
  hpc,           \* position of each harness run
  hloc,          \* the locals of each harness run's main
  original       \* the manifest as it was before any harness run

envVars   == <<manifest, backupFile, fs, rootKind, buildDir>>
parseVars == <<text, parsed>>
valVars   == <<vpc, vrun, source_files, all_exist, missing_files, vres>>
callVars  == <<vcall>>
flashVars == <<fpc, fargs, fenv, invoked, fexit>>
harnVars  == <<hpc, hloc, original>>
vars      == <<envVars, parseVars, valVars, callVars, flashVars, harnVars>>

-----------------------------------------------------------------------------
(* Bounds of the model *)

\* texts handed to parse_cmake_sources alone are built from at most this many pieces
MaxItems == 4
\* manifests of a validator run have at most this many lines
MaxLines == 2
\* reference sequences handed to verify_files_exist directly have at most this length
MaxRefs == 3

-----------------------------------------------------------------------------
(* Characters and strings *)

Lower  == {"a","b","c","d","e","f","g","h","i","j","k","l","m",
           "n","o","p","q","r","s","t","u","v","w","x","y","z"}
Upper  == {"A","B","C","D","E","F","G","H","I","J","K","L","M",
           "N","O","P","Q","R","S","T","U","V","W","X","Y","Z"}
Digits == {"0","1","2","3","4","5","6","7","8","9"}

\* the character class [a-zA-Z0-9_/] of file_pattern
PathChars == Lower \cup Upper \cup Digits \cup {"_", "/"}

\* the class [ch] of file_pattern
ExtChars == {"c", "h"}

\* the characters a path can hold, in code point order (what str.__lt__ compares)
CodePointOrder ==
  <<".", "/", "0","1","2","3","4","5","6","7","8","9",
    "A","B","C","D","E","F","G","H","I","J","K","L","M",
    "N","O","P","Q","R","S","T","U","V","W","X","Y","Z", "_",
    "a","b","c","d","e","f","g","h","i","j","k","l","m",
    "n","o","p","q","r","s","t","u","v","w","x","y","z">>

Ord(ch) == CHOOSE i \in 1..Len(CodePointOrder) : CodePointOrder[i] = ch

RECURSIVE StrLess(_, _)
\* a < b for Python strings: the first differing character decides, a proper
\* prefix is smaller
StrLess(a, b) ==
  IF b = <<>> THEN FALSE
  ELSE IF a = <<>> THEN TRUE
  ELSE IF Head(a) = Head(b) THEN StrLess(Tail(a), Tail(b))
  ELSE Ord(Head(a)) < Ord(Head(b))

RECURSIVE InsertSorted(_, _)
InsertSorted(x, s) ==
  IF s = <<>> THEN <<x>>
  ELSE IF StrLess(x, Head(s)) THEN <<x>> \o s
  ELSE <<Head(s)>> \o InsertSorted(x, Tail(s))

RECURSIVE SortedList(_)
\* sorted(list): ascending, stable
SortedList(s) ==
  IF s = <<>> THEN <<>>
  ELSE InsertSorted(s[Len(s)], SortedList(SubSeq(s, 1, Len(s) - 1)))

RECURSIVE Concat(_)
Concat(ss) == IF ss = <<>> THEN <<>> ELSE Head(ss) \o Concat(Tail(ss))

Range(s) == {s[i] : i \in 1..Len(s)}

\* whether sub occurs in s at index i
OccursAt(s, sub, i) ==
  /\ i >= 1
  /\ i + Len(sub) - 1 <= Len(s)
  /\ SubSeq(s, i, i + Len(sub) - 1) = sub

-----------------------------------------------------------------------------
(* parse_cmake_sources: validate_build.py:21-47 *)

SrcPrefix == <<"s","r","c","/">>

RECURSIVE RunEnd(_, _)
\* the index after the longest run of PathChars that starts at j
RunEnd(s, j) ==
  IF j <= Len(s) /\ s[j] \in PathChars THEN RunEnd(s, j + 1) ELSE j

\* re.match of src/[a-zA-Z0-9_/]+\.[ch] at index i: the index of the match's last
\* character, 0 when there is none.  The + is greedy and "." is no PathChar, so
\* giving characters back never helps: the run must be followed by "." itself.
MatchEnd(s, i) ==
  IF ~OccursAt(s, SrcPrefix, i) THEN 0
  ELSE LET e == RunEnd(s, i + 4) IN
       IF /\ e > i + 4
          /\ e + 1 <= Len(s)
          /\ s[e] = "."
          /\ s[e + 1] \in ExtChars
       THEN e + 1 ELSE 0

RECURSIVE FindAllFrom(_, _)
\* file_pattern.findall(content): leftmost matches, left to right, not overlapping
FindAllFrom(s, i) ==
  IF i > Len(s) THEN <<>>
  ELSE LET e == MatchEnd(s, i) IN
       IF e > 0 THEN <<SubSeq(s, i, e)>> \o FindAllFrom(s, e + 1)
       ELSE FindAllFrom(s, i + 1)

FindAll(s) == FindAllFrom(s, 1)

RECURSIVE DedupInto(_, _)
\* the loop of validate_build.py:41-45; seen is the set of what acc holds
DedupInto(matches, acc) ==
  IF matches = <<>> THEN acc
  ELSE IF Head(matches) \in Range(acc) THEN DedupInto(Tail(matches), acc)
  ELSE DedupInto(Tail(matches), Append(acc, Head(matches)))

\* a loop that keeps the last occurrence instead of the first
RECURSIVE DedupLastInto(_, _)
DedupLastInto(matches, acc) ==
  IF matches = <<>> THEN acc
  ELSE IF Head(matches) \in Range(Tail(matches)) THEN DedupLastInto(Tail(matches), acc)
  ELSE DedupLastInto(Tail(matches), Append(acc, Head(matches)))

DedupLast(matches) == DedupLastInto(matches, <<>>)

Dedup(matches) == DedupInto(matches, <<>>)

parse_cmake_sources(content) == Dedup(FindAll(content))

-----------------------------------------------------------------------------
(* The filesystem *)

NoFile == [exists |-> FALSE, content |-> <<>>]
File(c) == [exists |-> TRUE, content |-> c]

\* what can lie at a path: nothing, a regular file, a regular file without read
\* permission, a symlink to a regular file, a directory, a symlink loop, a
\* fifo/socket/device
Kinds == {"absent", "file", "unreadable", "file_symlink", "dir", "symlink_loop", "special"}

RootKinds == {"dir", "absent", "file"}

PathA == <<"s","r","c","/","a",".","c">>
PathB == <<"s","r","c","/","b","/","c",".","h">>
PathC == <<"s","r","c","/","a",".","h">>

\* the paths of the project tree the model varies; every other path is absent
TreePaths == {PathA, PathB, PathC}

KindOf(p) == IF p \in DOMAIN fs THEN fs[p] ELSE "absent"

\* os.path.exists in the place of os.path.isfile counts whatever stat finds
IsFileExists(p) == rootKind = "dir" /\ KindOf(p) \in Kinds \ {"absent", "symlink_loop"}

\* os.path.isfile(os.path.join(project_root, file_path)): stat, following
\* symlinks, succeeds and gives a regular file.  Nothing lies beneath a root that
\* is no directory; permission bits of the file itself play no part in stat.
IsFile(p) == rootKind = "dir" /\ KindOf(p) \in {"file", "unreadable", "file_symlink"}

\* nothing exists beneath a project root that is no directory
EnvConsistent ==
  rootKind # "dir" =>
    /\ manifest = NoFile
    /\ backupFile = NoFile
    /\ buildDir = FALSE
    /\ \A p \in DOMAIN fs : fs[p] = "absent"

-----------------------------------------------------------------------------
(* verify_files_exist: validate_build.py:50-68 *)

RECURSIVE MissingInto(_, _)
\* the loop of validate_build.py:63-66
MissingInto(files, acc) ==
  IF files = <<>> THEN acc
  ELSE IF ~IsFile(Head(files)) THEN MissingInto(Tail(files), Append(acc, Head(files)))
  ELSE MissingInto(Tail(files), acc)

RECURSIVE MissingFirstOnly(_)
\* a loop that breaks at the first miss
MissingFirstOnly(files) ==
  IF files = <<>> THEN <<>>
  ELSE IF ~IsFile(Head(files)) THEN <<Head(files)>>
  ELSE MissingFirstOnly(Tail(files))

MissingLoop(files) == MissingInto(files, <<>>)

verify_files_exist(files) ==
  LET missing == MissingLoop(files) IN
  [all_exist |-> Len(missing) = 0, missing_files |-> missing]

-----------------------------------------------------------------------------
(* Idle values of the parts a specification leaves alone *)

NoRun == [done |-> FALSE, refs |-> <<>>, missing |-> <<>>, listed |-> <<>>,
          total |-> 0, outcome |-> "none", exit |-> -1]

NoLocals == [backup_path |-> FALSE, content |-> <<>>, exit_code |-> -1,
             reconfig |-> "none", make |-> "none", raised |-> FALSE, ret |-> -1]

NoCall == [done |-> FALSE, files |-> <<>>, all_exist |-> FALSE, missing_files |-> <<>>,
           outcome |-> "none"]

EnvIdle ==
  /\ manifest = NoFile
  /\ backupFile = NoFile
  /\ fs = [p \in TreePaths |-> "absent"]
  /\ rootKind = "dir"
  /\ buildDir = FALSE

ParseIdle == text = <<>> /\ parsed = [done |-> FALSE, value |-> <<>>]

ValIdle ==
  /\ vpc = "idle"
  /\ vrun = 1
  /\ source_files = <<>>
  /\ all_exist = FALSE
  /\ missing_files = <<>>
  /\ vres = [r \in 1..2 |-> NoRun]

CallIdle == vcall = NoCall

FlashIdle ==
  /\ fpc = "idle"
  /\ fargs = [platform |-> "stm32", method |-> "st-flash"]
  /\ fenv = [firmware |-> FALSE, on_path |-> {}]
  /\ invoked = <<>>
  /\ fexit = -1

HarnIdle ==
  /\ hpc = [h \in {1, 2} |-> "idle"]
  /\ hloc = [h \in {1, 2} |-> NoLocals]
  /\ original = NoFile

-----------------------------------------------------------------------------
(* parse_cmake_sources on bounded texts *)

ParseItems ==
  { <<"s","r","c","/","a",".","c">>,
    <<"s","r","c","/","b",".","h">>,
    <<"s","r","c","/","a">>,
    <<".","c">>,
    <<"s","r","c","/">>,
    <<" ">>,
    <<"x">> }

SeqsUpTo(S, n) == UNION {[1..k -> S] : k \in 0..n}

ParseTexts == {Concat(items) : items \in SeqsUpTo(ParseItems, MaxItems)}

InitParse ==
  /\ text \in ParseTexts
  /\ parsed = [done |-> FALSE, value |-> <<>>]
  /\ EnvIdle /\ ValIdle /\ CallIdle /\ FlashIdle /\ HarnIdle

ParseText ==
  /\ ~parsed.done
  /\ parsed' = [done |-> TRUE, value |-> parse_cmake_sources(text)]
  /\ UNCHANGED <<text, envVars, valVars, callVars, flashVars, harnVars>>

NextParse == ParseText

SpecParse == InitParse /\ [][NextParse]_vars

-----------------------------------------------------------------------------
(* verify_files_exist called directly, on any reference sequence and any root *)

RefPaths == TreePaths

RefSeqs == SeqsUpTo(RefPaths, MaxRefs)

InitVerify ==
  /\ rootKind \in RootKinds
  /\ fs \in [TreePaths -> Kinds]
  /\ manifest = NoFile /\ backupFile = NoFile /\ buildDir = FALSE
  /\ EnvConsistent
  /\ vcall = NoCall
  /\ ParseIdle /\ ValIdle /\ FlashIdle /\ HarnIdle

CallVerify ==
  /\ ~vcall.done
  /\ \E files \in RefSeqs :
       LET r == verify_files_exist(files) IN
       vcall' = [done |-> TRUE, files |-> files, all_exist |-> r.all_exist,
                 missing_files |-> r.missing_files, outcome |-> "returned"]
  /\ UNCHANGED <<envVars, parseVars, valVars, flashVars, harnVars>>

NextVerify == CallVerify

SpecVerify == InitVerify /\ [][NextVerify]_vars

-----------------------------------------------------------------------------
(* validate_build.main: validate_build.py:71-112 *)

ManifestLines ==
  { <<" "," "," "," ","s","r","c","/","a",".","c","\n">>,
    <<" "," "," "," ","s","r","c","/","b","/","c",".","h","\n">>,
    <<" "," "," "," ","s","r","c","/","a",".","h","\n">>,
    <<"#"," ","n","o","n","e","\n">> }

ManifestTexts == {Concat(ls) : ls \in SeqsUpTo(ManifestLines, MaxLines)}

InitValidator ==
  /\ rootKind \in RootKinds
  /\ fs \in [TreePaths -> Kinds]
  /\ manifest \in {NoFile} \cup {File(c) : c \in ManifestTexts}
  /\ backupFile = NoFile /\ buildDir = FALSE
  /\ EnvConsistent
  /\ vpc = "start"
  /\ vrun = 1
  /\ source_files = <<>>
  /\ all_exist = FALSE
  /\ missing_files = <<>>
  /\ vres = [r \in 1..2 |-> NoRun]
  /\ ParseIdle /\ CallIdle /\ FlashIdle /\ HarnIdle

\* open(cmake_file_path, 'r') leaves the file as it is; open(..., 'w') would
\* truncate it
OpenForWrite(f) == File(<<>>)
OpenForRead(f) == f

\* the parts of the state no validator step touches
ValidatorFrame == UNCHANGED <<parseVars, callVars, flashVars, harnVars>>

\* validate_build.py:80-82
V_ManifestMissing ==
  /\ vpc = "start"
  /\ ~manifest.exists
  /\ vres' = [vres EXCEPT ![vrun] =
                [done |-> TRUE, refs |-> <<>>, missing |-> <<>>, listed |-> <<>>,
                 total |-> 0, outcome |-> "manifest_not_found", exit |-> 1]]
  /\ vpc' = "done"
  /\ UNCHANGED <<vrun, source_files, all_exist, missing_files>>
  /\ UNCHANGED envVars
  /\ ValidatorFrame

\* validate_build.py:80, 84-87
V_ManifestFound ==
  /\ vpc = "start"
  /\ manifest.exists
  /\ vpc' = "parse"
  /\ UNCHANGED <<vrun, source_files, all_exist, missing_files, vres>>
  /\ UNCHANGED envVars
  /\ ValidatorFrame

\* validate_build.py:90-92
V_Parse ==
  /\ vpc = "parse"
  /\ manifest.exists
  /\ source_files' = parse_cmake_sources(manifest.content)
  /\ manifest' = OpenForRead(manifest)
  /\ vpc' = "verify"
  /\ UNCHANGED <<vrun, all_exist, missing_files, vres>>
  /\ UNCHANGED <<backupFile, fs, rootKind, buildDir>>
  /\ ValidatorFrame

\* validate_build.py:95
V_Verify ==
  /\ vpc = "verify"
  /\ LET r == verify_files_exist(source_files) IN
       /\ all_exist' = r.all_exist
       /\ missing_files' = r.missing_files
  /\ vpc' = "report"
  /\ UNCHANGED <<vrun, source_files, vres>>
  /\ UNCHANGED envVars
  /\ ValidatorFrame

\* the order in which the success branch lists the references
ListedUnsorted(files) == files
ListedOnSuccess(files) == SortedList(files)

\* the value main returns from its two report branches
ExitAlwaysZero(ok) == 0
ExitOf(ok) == IF ok THEN 0 ELSE 1

\* validate_build.py:97-103
V_ReportSuccess ==
  /\ vpc = "report"
  /\ all_exist
  /\ vres' = [vres EXCEPT ![vrun] =
                [done |-> TRUE, refs |-> source_files, missing |-> missing_files,
                 listed |-> ListedOnSuccess(source_files), total |-> 0,
                 outcome |-> "success", exit |-> ExitOf(TRUE)]]
  /\ vpc' = "done"
  /\ UNCHANGED <<vrun, source_files, all_exist, missing_files>>
  /\ UNCHANGED envVars
  /\ ValidatorFrame

\* validate_build.py:104-112
V_ReportFailure ==
  /\ vpc = "report"
  /\ ~all_exist
  /\ vres' = [vres EXCEPT ![vrun] =
                [done |-> TRUE, refs |-> source_files, missing |-> missing_files,
                 listed |-> missing_files, total |-> Len(missing_files),
                 outcome |-> "failure", exit |-> ExitOf(FALSE)]]
  /\ vpc' = "done"
  /\ UNCHANGED <<vrun, source_files, all_exist, missing_files>>
  /\ UNCHANGED envVars
  /\ ValidatorFrame

\* the validator is run again, a fresh process
V_Again ==
  /\ vpc = "done"
  /\ vrun = 1
  /\ vrun' = 2
  /\ vpc' = "start"
  /\ source_files' = <<>>
  /\ all_exist' = FALSE
  /\ missing_files' = <<>>
  /\ UNCHANGED vres
  /\ UNCHANGED envVars
  /\ ValidatorFrame

NextValidator ==
  \/ V_ManifestMissing
  \/ V_ManifestFound
  \/ V_Parse
  \/ V_Verify
  \/ V_ReportSuccess
  \/ V_ReportFailure
  \/ V_Again

Spec == InitValidator /\ [][NextValidator]_vars

-----------------------------------------------------------------------------
(* flash.main: flash.py:79-96 *)

Platforms == {"stm32", "nrf52"}
Methods == {"st-flash", "openocd"}
Tools == {"st-flash", "openocd", "nrfjprog"}

\* exit statuses of a vendor tool: success, failure, killed by a signal
ExitStatuses == {0, 1, -9}

\* the command lines of flash.py:34, 41-46, 65, 69, 73
StFlashCmd == <<"st-flash", "write", "FIRMWARE", "0x8000000">>
OpenOcdCmd == <<"openocd", "-f", "interface/stlink.cfg", "-f", "target/stm32f4x.cfg",
                "-c", "program FIRMWARE verify reset exit 0x08000000">>
NrfEraseCmd == <<"nrfjprog", "--eraseall">>
NrfProgramCmd == <<"nrfjprog", "--program", "FIRMWARE", "--verify">>
NrfResetCmd == <<"nrfjprog", "--reset">>

\* a dispatcher that does not look for the tool before invoking it
CheckToolSkipped(tool_name) == TRUE

\* check_tool: flash.py:20-24
check_tool(tool_name) == tool_name \in fenv.on_path

\* subprocess.run(cmd, check=True) raises CalledProcessError on a non-zero status;
\* without check=True it never does
RaisesUnchecked(rc) == FALSE
RaisesCalledProcessError(rc) == rc # 0

InitFlash ==
  /\ fargs \in [platform : Platforms, method : Methods]
  /\ fenv \in [firmware : BOOLEAN, on_path : SUBSET Tools]
  /\ fpc = "main"
  /\ invoked = <<>>
  /\ fexit = -1
  /\ EnvIdle /\ ParseIdle /\ ValIdle /\ CallIdle /\ HarnIdle

FlashFrame == UNCHANGED <<fargs, fenv, envVars, parseVars, valVars, callVars, harnVars>>

\* error(): flash.py:16-18
F_Error == fexit' = 1 /\ fpc' = "exited"

\* flash.py:87-88
F_FirmwareMissing ==
  /\ fpc = "main"
  /\ ~fenv.firmware
  /\ F_Error
  /\ UNCHANGED invoked
  /\ FlashFrame

\* flash.py:90-93
F_Dispatch ==
  /\ fpc = "main"
  /\ fenv.firmware
  /\ fpc' = fargs.platform
  /\ UNCHANGED <<invoked, fexit>>
  /\ FlashFrame

\* flash.py:29-31, 36-38
F_Stm32ToolMissing ==
  /\ fpc = "stm32"
  /\ ~check_tool(fargs.method)
  /\ F_Error
  /\ UNCHANGED invoked
  /\ FlashFrame

\* flash.py:34, 41-46, 50-54, then main returns and the process exits 0
F_Stm32Run ==
  /\ fpc = "stm32"
  /\ check_tool(fargs.method)
  /\ \E rc \in ExitStatuses :
       /\ invoked' = Append(invoked,
                       [cmd |-> IF fargs.method = "st-flash" THEN StFlashCmd ELSE OpenOcdCmd,
                        rc |-> rc])
       /\ IF RaisesCalledProcessError(rc)
          THEN F_Error
          ELSE fexit' = 0 /\ fpc' = "exited"
  /\ FlashFrame

\* flash.py:59-60
F_NrfToolMissing ==
  /\ fpc = "nrf52"
  /\ ~check_tool("nrfjprog")
  /\ F_Error
  /\ UNCHANGED invoked
  /\ FlashFrame

\* flash.py:59-65, 76-77
F_NrfErase ==
  /\ fpc = "nrf52"
  /\ check_tool("nrfjprog")
  /\ \E rc \in ExitStatuses :
       /\ invoked' = Append(invoked, [cmd |-> NrfEraseCmd, rc |-> rc])
       /\ IF RaisesCalledProcessError(rc)
          THEN F_Error
          ELSE fpc' = "nrf52_program" /\ UNCHANGED fexit
  /\ FlashFrame

\* flash.py:68-69, 76-77
F_NrfProgram ==
  /\ fpc = "nrf52_program"
  /\ \E rc \in ExitStatuses :
       /\ invoked' = Append(invoked, [cmd |-> NrfProgramCmd, rc |-> rc])
       /\ IF RaisesCalledProcessError(rc)
          THEN F_Error
          ELSE fpc' = "nrf52_reset" /\ UNCHANGED fexit
  /\ FlashFrame

\* flash.py:72-77, then main returns and the process exits 0
F_NrfReset ==
  /\ fpc = "nrf52_reset"
  /\ \E rc \in ExitStatuses :
       /\ invoked' = Append(invoked, [cmd |-> NrfResetCmd, rc |-> rc])
       /\ IF RaisesCalledProcessError(rc)
          THEN F_Error
          ELSE fexit' = 0 /\ fpc' = "exited"
  /\ FlashFrame

NextFlash ==
  \/ F_FirmwareMissing
  \/ F_Dispatch
  \/ F_Stm32ToolMissing
  \/ F_Stm32Run
  \/ F_NrfToolMissing
  \/ F_NrfErase
  \/ F_NrfProgram
  \/ F_NrfReset

SpecFlash == InitFlash /\ [][NextFlash]_vars

-----------------------------------------------------------------------------
(* test_cmake_error_handling.main: test_cmake_error_handling.py:94-271 *)

\* the two arguments of content.replace: test_cmake_error_handling.py:38-39
CryptoBlock ==
  <<"s","e","t","(","C","R","Y","P","T","O","_","S","O","U","R","C",
    "E","S","\n"," "," "," "," ","s","r","c","/","c","r","y","p","t",
    "o","/","c","r","y","p","t","o",".","c","\n",")">>
CryptoBlockInvalid ==
  <<"s","e","t","(","C","R","Y","P","T","O","_","S","O","U","R","C",
    "E","S","\n"," "," "," "," ","s","r","c","/","c","r","y","p","t",
    "o","/","c","r","y","p","t","o",".","c","\n"," "," "," "," ","s",
    "r","c","/","c","r","y","p","t","o","/","n","o","n","e","x","i",
    "s","t","e","n","t","_","f","i","l","e",".","c","\n",")">>

RECURSIVE ReplaceFrom(_, _, _, _)
\* str.replace(old, new): every occurrence, left to right, not overlapping
ReplaceFrom(s, old, new, i) ==
  IF i > Len(s) THEN <<>>
  ELSE IF OccursAt(s, old, i) THEN new \o ReplaceFrom(s, old, new, i + Len(old))
  ELSE <<s[i]>> \o ReplaceFrom(s, old, new, i + 1)

\* the modified_content of add_invalid_file_reference
modified_content(content) == ReplaceFrom(content, CryptoBlock, CryptoBlockInvalid, 1)

Harnesses == {1, 2}

\* manifests the harness is run on: the CRYPTO_SOURCES block alone, the block
\* among other text, the block twice, a manifest without the block, an empty one
HarnessTexts ==
  { CryptoBlock \o <<"\n">>,
    <<"#"," ","x","\n">> \o CryptoBlock \o <<"\n","s","r","c","/","a",".","c","\n">>,
    CryptoBlock \o <<"\n">> \o CryptoBlock,
    <<"s","e","t","(","S","\n"," "," "," "," ","s","r","c","/","a",".","c","\n",")","\n">>,
    <<>> }

\* a backup an earlier, killed run left behind
StaleBackup == File(<<"s","t","a","l","e","\n">>)

\* outcomes of subprocess.run(['cmake', '.'], timeout=30)
ReconfigOutcomes == {"zero", "nonzero", "timeout"}

\* outcomes of run_make_build: which executable ran, and how it ended
MakeOutcomes ==
  { [ran |-> "mingw32-make", how |-> "zero"],
    [ran |-> "mingw32-make", how |-> "nonzero"],
    [ran |-> "mingw32-make", how |-> "timeout"],
    [ran |-> "make", how |-> "zero"],
    [ran |-> "make", how |-> "nonzero"],
    [ran |-> "make", how |-> "timeout"],
    [ran |-> "none", how |-> "not_found"] }

HarnessFrame(h) ==
  /\ \A g \in Harnesses \ {h} : hpc'[g] = hpc[g] /\ hloc'[g] = hloc[g]
  /\ UNCHANGED <<original, fs, rootKind, buildDir, parseVars, valVars, callVars, flashVars>>

Goto(h, pc) == hpc' = [hpc EXCEPT ![h] = pc]

\* test_cmake_error_handling.py:108-116
H_Refuse(h) ==
  /\ hpc[h] = "main"
  /\ ~manifest.exists \/ ~buildDir
  /\ Goto(h, "returned")
  /\ hloc' = [hloc EXCEPT ![h].ret = 1]
  /\ UNCHANGED <<manifest, backupFile>>
  /\ HarnessFrame(h)

\* test_cmake_error_handling.py:108-119
H_Begin(h) ==
  /\ hpc[h] = "main"
  /\ manifest.exists /\ buildDir
  /\ Goto(h, "backup")
  /\ hloc' = [hloc EXCEPT ![h].exit_code = 0]
  /\ UNCHANGED <<manifest, backupFile>>
  /\ HarnessFrame(h)

\* backup_file: test_cmake_error_handling.py:18-22, 124
H_Backup(h) ==
  /\ hpc[h] = "backup"
  /\ manifest.exists
  /\ backupFile' = File(manifest.content)
  /\ hloc' = [hloc EXCEPT ![h].backup_path = TRUE]
  /\ Goto(h, "read")
  /\ UNCHANGED manifest
  /\ HarnessFrame(h)

\* shutil.copy2 raises (the directory is not writable): backup_path stays None
H_BackupFails(h) ==
  /\ hpc[h] = "backup"
  /\ hloc' = [hloc EXCEPT ![h].raised = TRUE]
  /\ Goto(h, "finally")
  /\ UNCHANGED <<manifest, backupFile>>
  /\ HarnessFrame(h)

\* add_invalid_file_reference: test_cmake_error_handling.py:33-34
H_Read(h) ==
  /\ hpc[h] = "read"
  /\ manifest.exists
  /\ hloc' = [hloc EXCEPT ![h].content = manifest.content]
  /\ Goto(h, "write")
  /\ UNCHANGED <<manifest, backupFile>>
  /\ HarnessFrame(h)

\* add_invalid_file_reference: test_cmake_error_handling.py:37-45
H_Write(h) ==
  /\ hpc[h] = "write"
  /\ manifest' = File(modified_content(hloc[h].content))
  /\ Goto(h, "reconfigure")
  /\ UNCHANGED <<backupFile, hloc>>
  /\ HarnessFrame(h)

\* open(cmake_file, 'w') truncates the manifest and f.write raises
H_WriteFails(h) ==
  /\ hpc[h] = "write"
  /\ manifest' = File(<<>>)
  /\ hloc' = [hloc EXCEPT ![h].raised = TRUE]
  /\ Goto(h, "finally")
  /\ UNCHANGED backupFile
  /\ HarnessFrame(h)

\* an exception nobody catches inside the try block (a print that cannot encode
\* its check mark, a read that cannot decode, cmake not found at line 51)
H_Raise(h) ==
  /\ hpc[h] \in {"read", "reconfigure", "make"}
  /\ hloc' = [hloc EXCEPT ![h].raised = TRUE]
  /\ Goto(h, "finally")
  /\ UNCHANGED <<manifest, backupFile>>
  /\ HarnessFrame(h)

\* exit_code after the reconfigure branch of main,
\* test_cmake_error_handling.py:138-188: only a result of None sets it to 1
ExitAfterReconfigure(exit_code, out, found_error) ==
  IF out = "timeout" THEN 1 ELSE exit_code

\* a harness that also fails when the build's output does not name the file
ExitNeedsMessage(exit_code, how, found_error) ==
  IF how = "nonzero" /\ found_error THEN exit_code ELSE 1

\* exit_code after the make branch of main,
\* test_cmake_error_handling.py:197-210: a result of None or a return code of 0
\* sets it to 1
ExitAfterMake(exit_code, how, found_error) ==
  IF how = "nonzero" THEN exit_code ELSE 1

\* run_cmake_reconfigure and what main makes of its result:
\* test_cmake_error_handling.py:48-61, 136-191.  found_error only selects what is
\* printed.
H_Reconfigure(h) ==
  /\ hpc[h] = "reconfigure"
  /\ \E out \in ReconfigOutcomes, found_error \in BOOLEAN :
       /\ hloc' = [hloc EXCEPT ![h].reconfig = out,
                               ![h].exit_code = ExitAfterReconfigure(@, out, found_error)]
       /\ Goto(h, IF out = "zero" THEN "make" ELSE "finally")
  /\ UNCHANGED <<manifest, backupFile>>
  /\ HarnessFrame(h)

\* run_make_build and what main makes of its result:
\* test_cmake_error_handling.py:64-91, 195-249
H_Make(h) ==
  /\ hpc[h] = "make"
  /\ \E out \in MakeOutcomes, found_error \in BOOLEAN :
       /\ hloc' = [hloc EXCEPT ![h].make = out.how,
                               ![h].exit_code = ExitAfterMake(@, out.how, found_error)]
       /\ Goto(h, "finally")
  /\ UNCHANGED <<manifest, backupFile>>
  /\ HarnessFrame(h)

\* a restore placed after the try block instead of in finally runs only when
\* nothing was raised
RestoreUnlessRaised(loc) == loc.backup_path /\ ~loc.raised
\* the first operand of the test at test_cmake_error_handling.py:254, reached
\* on every way out of the try block
RestoreWanted(loc) == loc.backup_path

\* test_cmake_error_handling.py:251-254
H_Finally(h) ==
  /\ hpc[h] = "finally"
  /\ Goto(h, IF RestoreWanted(hloc[h]) /\ backupFile.exists
             THEN "restore_copy" ELSE "leave")
  /\ UNCHANGED <<manifest, backupFile, hloc>>
  /\ HarnessFrame(h)

\* restore_file: test_cmake_error_handling.py:27; copy2 raises FileNotFoundError
\* when the backup is gone
H_RestoreCopy(h) ==
  /\ hpc[h] = "restore_copy"
  /\ IF backupFile.exists
     THEN /\ manifest' = File(backupFile.content)
          /\ Goto(h, "restore_remove")
          /\ UNCHANGED hloc
     ELSE /\ hloc' = [hloc EXCEPT ![h].raised = TRUE]
          /\ Goto(h, "leave")
          /\ UNCHANGED manifest
  /\ UNCHANGED backupFile
  /\ HarnessFrame(h)

\* restore_file: test_cmake_error_handling.py:28; os.remove raises
\* FileNotFoundError when the backup is gone
H_RestoreRemove(h) ==
  /\ hpc[h] = "restore_remove"
  /\ IF backupFile.exists
     THEN backupFile' = NoFile /\ UNCHANGED hloc
     ELSE hloc' = [hloc EXCEPT ![h].raised = TRUE] /\ UNCHANGED backupFile
  /\ Goto(h, "leave")
  /\ UNCHANGED manifest
  /\ HarnessFrame(h)

\* test_cmake_error_handling.py:259-271: main returns exit_code, unless an
\* exception is on its way out
H_Leave(h) ==
  /\ hpc[h] = "leave"
  /\ IF hloc[h].raised
     THEN Goto(h, "crashed") /\ UNCHANGED hloc
     ELSE Goto(h, "returned") /\ hloc' = [hloc EXCEPT ![h].ret = hloc[h].exit_code]
  /\ UNCHANGED <<manifest, backupFile>>
  /\ HarnessFrame(h)

\* the steps of a run in which nothing fails unexpectedly
NominalStep(h) ==
  \/ H_Refuse(h)
  \/ H_Begin(h)
  \/ H_Backup(h)
  \/ H_Read(h)
  \/ H_Write(h)
  \/ H_Reconfigure(h)
  \/ H_Make(h)
  \/ H_Finally(h)
  \/ H_RestoreCopy(h)
  \/ H_RestoreRemove(h)
  \/ H_Leave(h)

\* the steps in which an exception is raised inside the try block
FaultStep(h) ==
  \/ H_BackupFails(h)
  \/ H_WriteFails(h)
  \/ H_Raise(h)

HarnessStep(h) == NominalStep(h) \/ FaultStep(h)

\* one harness run
InitHarness ==
  /\ manifest \in {NoFile} \cup {File(c) : c \in HarnessTexts}
  /\ backupFile \in {NoFile, StaleBackup}
  /\ buildDir \in BOOLEAN
  /\ rootKind = "dir"
  /\ fs = [p \in TreePaths |-> "absent"]
  /\ original = manifest
  /\ hpc = [h \in Harnesses |-> IF h = 1 THEN "main" ELSE "idle"]
  /\ hloc = [h \in Harnesses |-> NoLocals]
  /\ ParseIdle /\ ValIdle /\ CallIdle /\ FlashIdle

NextHarness == HarnessStep(1)

SpecHarness == InitHarness /\ [][NextHarness]_vars

-----------------------------------------------------------------------------
(* Two harness runs and a validator run on the same manifest, interleaved. *)
(* Nothing in test_cmake_error_handling.py or validate_build.py takes a    *)
(* lock, so every interleaving of their steps can happen.  The runs here   *)
(* meet no unexpected exception: only the interleaving varies.             *)

CryptoPath == <<"s","r","c","/","c","r","y","p","t","o","/","c","r","y","p","t","o",".","c">>

InitConc ==
  /\ manifest = File(CryptoBlock \o <<"\n">>)
  /\ backupFile = NoFile
  /\ buildDir \in BOOLEAN
  /\ rootKind = "dir"
  /\ fs = [p \in {CryptoPath} |-> "file"]
  /\ original = manifest
  /\ hpc = [h \in Harnesses |-> "main"]
  /\ hloc = [h \in Harnesses |-> NoLocals]
  /\ vpc = "start"
  /\ vrun = 1
  /\ source_files = <<>>
  /\ all_exist = FALSE
  /\ missing_files = <<>>
  /\ vres = [r \in 1..2 |-> NoRun]
  /\ ParseIdle /\ CallIdle /\ FlashIdle

NextConc ==
  \/ \E h \in Harnesses : NominalStep(h)
  \/ V_ManifestFound
  \/ V_Parse
  \/ V_Verify
  \/ V_ReportSuccess
  \/ V_ReportFailure

SpecConc == InitConc /\ [][NextConc]_vars

-----------------------------------------------------------------------------
(* Properties *)

NoDuplicates(s) == \A i, j \in 1..Len(s) : i # j => s[i] # s[j]

\* the index of p's first occurrence among the matches m
FirstIndex(m, p) == CHOOSE i \in 1..Len(m) : m[i] = p /\ \A j \in 1..(i - 1) : m[j] # p

\* s lists its elements in the order of their first occurrence among the matches m
InFirstOccurrenceOrder(s, m) ==
  /\ Range(s) \subseteq Range(m)
  /\ \A i, j \in 1..Len(s) : i < j <=> FirstIndex(m, s[i]) < FirstIndex(m, s[j])

\* p has the shape src/<one or more of [a-zA-Z0-9_/]>.<c or h>
HasPathShape(p) ==
  /\ Len(p) >= 7
  /\ SubSeq(p, 1, 4) = SrcPrefix
  /\ \A i \in 5..(Len(p) - 2) : p[i] \in PathChars
  /\ p[Len(p) - 1] = "."
  /\ p[Len(p)] \in {"c", "h"}

\* stat of <project_root>/p, following symlinks, gives a regular file
IsRegularFile(p) ==
  /\ rootKind = "dir"
  /\ KindOf(p) \in {"file", "unreadable", "file_symlink"}

\* the k-th smallest element of the set of indices I
KthIndex(I, k) == CHOOSE i \in I : Cardinality({j \in I : j <= i}) = k

\* C1: a validator run returns 0 iff the manifest exists and every reference
\* extracted from it is a regular file under the project root (no reference at
\* all included); otherwise it returns 1.
C1_ExitCode ==
  \A r \in 1..2 :
    vres[r].done =>
      /\ vres[r].exit \in {0, 1}
      /\ vres[r].exit = 0 <=>
           /\ manifest.exists
           /\ \A p \in Range(FindAll(manifest.content)) : IsRegularFile(p)

C1_Witness ==
  /\ vres[1].done
  /\ vres[1].exit = 0
  /\ Len(vres[1].refs) >= 2

\* C2: verify_files_exist checks every reference and returns as missing exactly
\* the sub-sequence, in the same order, of the references that are no regular
\* file; N such references give a list of length N; all_exist iff it is empty.
C2_MissingIsExactSubsequence ==
  vcall.done =>
    LET files == vcall.files
        miss  == vcall.missing_files
        I     == {i \in 1..Len(files) : ~IsRegularFile(files[i])}
    IN /\ Len(miss) = Cardinality(I)
       /\ \A k \in 1..Len(miss) : miss[k] = files[KthIndex(I, k)]
       /\ \A p \in Range(miss) : ~IsRegularFile(p)
       /\ vcall.all_exist <=> miss = <<>>

C2_Witness ==
  /\ vcall.done
  /\ Len(vcall.files) = 3
  /\ Len(vcall.missing_files) = 2
  /\ IsRegularFile(vcall.files[2])
  /\ vcall.missing_files[1] # vcall.missing_files[2]

\* C4: parse_cmake_sources returns the pattern's matches with duplicates
\* removed: every distinct match once, in the order of first occurrence in the
\* text; no match gives the empty sequence.
C4_FirstOccurrenceOrder ==
  parsed.done =>
    LET m == FindAll(text)
        r == parsed.value
    IN /\ Range(r) = Range(m)
       /\ NoDuplicates(r)
       /\ InFirstOccurrenceOrder(r, m)
       /\ (m = <<>> => r = <<>>)
       /\ \A p \in Range(r) :
            /\ HasPathShape(p)
            /\ \E i \in 1..Len(text) : OccursAt(text, p, i)

C4_Witness ==
  /\ parsed.done
  /\ Len(parsed.value) = 2
  /\ Len(FindAll(text)) = 3
  /\ FindAll(text)[1] = FindAll(text)[3]

\* C5 as stated: the paths a run lists, validated or missing, appear in the
\* order of their first occurrence in the manifest text, each once.
C5_ListedInFirstOccurrenceOrder ==
  \A r \in 1..2 :
    (vres[r].done /\ manifest.exists) =>
      /\ NoDuplicates(vres[r].listed)
      /\ InFirstOccurrenceOrder(vres[r].listed, FindAll(manifest.content))

\* C5, amended: the missing paths of a failure report appear in the order of
\* their first occurrence in the manifest text, each once; the validated paths
\* of a success report are all the references, each once, in ascending string
\* order.
C5_MissingInOrderValidatedSorted ==
  \A r \in 1..2 :
    (vres[r].done /\ manifest.exists) =>
      LET m == FindAll(manifest.content) IN
      /\ NoDuplicates(vres[r].listed)
      /\ vres[r].outcome = "failure" =>
           /\ InFirstOccurrenceOrder(vres[r].listed, m)
           /\ Range(vres[r].listed) = {p \in Range(m) : ~IsRegularFile(p)}
           /\ vres[r].total = Len(vres[r].listed)
      /\ vres[r].outcome = "success" =>
           /\ Range(vres[r].listed) = Range(m)
           /\ \A i, j \in 1..Len(vres[r].listed) :
                i < j => StrLess(vres[r].listed[i], vres[r].listed[j])

C5_Witness ==
  /\ vres[1].done
  /\ vres[1].outcome = "success"
  /\ Len(vres[1].listed) >= 2
  /\ vres[1].listed # vres[1].refs

\* C6: given a project root that does not exist or is no directory,
\* verify_files_exist surfaces a configuration error and reports no missing
\* files.
C6_BadRootIsConfigurationError ==
  (vcall.done /\ rootKind # "dir") =>
    /\ vcall.outcome = "configuration_error"
    /\ vcall.missing_files = <<>>

\* C7 as stated: a reference whose resolved path is absent, a directory, a
\* symlink loop, a special file or a regular file that is not readable is in
\* the missing list.
C7_OnlyReadablePlainFilesPresent ==
  vcall.done =>
    \A p \in Range(vcall.files) :
      (rootKind # "dir" \/ KindOf(p) \in {"absent", "dir", "symlink_loop", "special", "unreadable"})
        => p \in Range(vcall.missing_files)

\* C7, amended: a reference is in the missing list iff its resolved path,
\* symlinks followed, is no regular file: absent, a directory, a symlink loop
\* or a special file.  A regular file counts as present whether or not it is
\* readable.
C7_RegularFilesPresent ==
  vcall.done =>
    \A p \in Range(vcall.files) :
      /\ (rootKind # "dir" \/ KindOf(p) \in {"absent", "dir", "symlink_loop", "special"})
           => p \in Range(vcall.missing_files)
      /\ (rootKind = "dir" /\ KindOf(p) \in {"file", "unreadable", "file_symlink"})
           => p \notin Range(vcall.missing_files)

C7_Witness ==
  /\ vcall.done
  /\ \E p, q \in Range(vcall.files) :
       /\ KindOf(p) = "unreadable" /\ p \notin Range(vcall.missing_files)
       /\ KindOf(q) = "dir" /\ q \in Range(vcall.missing_files)

\* C9: two validator runs in succession on the same manifest and filesystem
\* extract the same references, report the same missing list and return the
\* same exit code; no step of a run writes the manifest or the project tree.
C9_Idempotent ==
  [][ /\ envVars' = envVars
      /\ vres'[2].done =>
           /\ vres'[2].refs = vres'[1].refs
           /\ vres'[2].missing = vres'[1].missing
           /\ vres'[2].listed = vres'[1].listed
           /\ vres'[2].exit = vres'[1].exit ]_vars

C9_Witness ==
  /\ vres[2].done
  /\ vres[2].outcome = "failure"
  /\ Len(vres[2].refs) >= 2

\* the vendor tool the arguments select
SelectedTool == IF fargs.platform = "stm32" THEN fargs.method ELSE "nrfjprog"

\* C8: the flash dispatcher exits 1 if the firmware file is missing, or the
\* selected vendor tool is not on the search path, or an invoked vendor tool
\* command exits non-zero; otherwise it exits 0.
C8_FlashExitCode ==
  fpc = "exited" =>
    /\ fexit \in {0, 1}
    /\ fexit = 1 <=>
         \/ ~fenv.firmware
         \/ SelectedTool \notin fenv.on_path
         \/ \E i \in 1..Len(invoked) : invoked[i].rc # 0

C8_Witness ==
  /\ fpc = "exited"
  /\ fexit = 1
  /\ fargs.platform = "nrf52"
  /\ Len(invoked) = 3
  /\ invoked[3].rc # 0

Finished(h) == hpc[h] \in {"returned", "crashed"}

\* C3: after one run of the mutation harness, on every way out of it, the
\* manifest's content is what it was before the run.
C3_ManifestRestored ==
  Finished(1) => manifest = original

C3_Witness ==
  /\ hpc[1] = "crashed"
  /\ hloc[1].backup_path
  /\ hloc[1].content # <<>>
  /\ modified_content(hloc[1].content) # hloc[1].content
  /\ manifest = original

\* run h has made its backup and not yet restored from it
InWindow(h) ==
  /\ hloc[h].backup_path
  /\ hpc[h] \in {"read", "write", "reconfigure", "make", "finally", "restore_copy"}

\* C10: under any interleaving of two harness runs and a validator run, no
\* other run writes the manifest or its backup between a run's backup and its
\* restore, and once every run has returned the manifest's content is the
\* original content.
C10_SingleWriter ==
  [][ /\ \A h, g \in Harnesses :
           (h # g /\ InWindow(h) /\ hpc'[g] # hpc[g])
             => (manifest' = manifest /\ backupFile' = backupFile)
      /\ ((\A h \in Harnesses : Finished(h)') /\ vpc' = "done")
           => manifest' = original' ]_vars

\* the command lines of the invocations made so far
InvokedCmds == [i \in 1..Len(invoked) |-> invoked[i].cmd]

NrfSequence == <<NrfEraseCmd, NrfProgramCmd, NrfResetCmd>>

\* C11: for nrf52 the vendor-tool invocations of a dispatcher run are always a
\* prefix of erase, program, reset; each one but the first follows an
\* invocation that exited zero; none is made when the firmware file does not
\* exist or nrfjprog is not on the search path.
C11_NrfSequenceIsPrefix ==
  fargs.platform = "nrf52" =>
    /\ Len(invoked) <= Len(NrfSequence)
    /\ InvokedCmds = SubSeq(NrfSequence, 1, Len(invoked))
    /\ \A i \in 2..Len(invoked) : invoked[i - 1].rc = 0
    /\ (~fenv.firmware \/ "nrfjprog" \notin fenv.on_path) => invoked = <<>>

C11_Witness ==
  /\ fargs.platform = "nrf52"
  /\ fpc = "exited"
  /\ Len(invoked) = 2
  /\ invoked[1].rc = 0
  /\ invoked[2].rc # 0

\* C12: once the manifest and the build directory exist, the harness returns 0
\* iff an external step ran and exited non-zero (reconfigure did, or
\* reconfigure exited zero and make exited non-zero); it returns 1 when
\* reconfigure times out, when make times out or no make executable is found,
\* or when both steps exit zero.  What the tool output mentions plays no part.
C12_HarnessExitCode ==
  (Finished(1) /\ hloc[1].exit_code # -1) =>
    LET loc == hloc[1]
        failed_as_expected ==
          \/ loc.reconfig = "nonzero"
          \/ loc.reconfig = "zero" /\ loc.make = "nonzero"
        returns_one ==
          \/ loc.reconfig = "timeout"
          \/ loc.reconfig = "zero" /\ loc.make \in {"timeout", "not_found", "zero"}
    IN /\ loc.ret = 0 <=> failed_as_expected
       /\ returns_one => (hpc[1] = "returned" /\ loc.ret = 1)
       /\ hpc[1] = "returned" => loc.ret \in {0, 1}

C12_Witness ==
  /\ hpc[1] = "returned"
  /\ hloc[1].ret = 0
  /\ hloc[1].reconfig = "zero"
  /\ hloc[1].make = "nonzero"

=============================================================================
